---- MODULE Spec2Model ----
(***************************************************************************)
(* Model of scooter_demand_model.py: generate_synthetic_data,              *)
(* fit_hierarchical_model and calculate_residuals, run as analyses         *)
(* (generate -> fit -> residuals) the way example_usage.py runs them.      *)
(*                                                                         *)
(* Reals are modelled in integers: log-rates are whole numbers, and        *)
(* demand (exp of a log-rate) and residuals are in hundredths.             *)
(***************************************************************************)
EXTENDS Integers, Sequences, FiniteSets, TLC

\* The analyses: example_usage.py runs several, one after the other.
Pipes == {1, 2}

\* Seeds the callers pass to generate_synthetic_data (example_usage.py).
Seeds == {42, 123}

\* Largest n_neigh, largest n_samples, and the number of posterior draws
\* (1000 in the source, line 105) the model explores.
MaxNeigh == 2
MaxIter == 2
SampleDraws == 2

\* Values of the random stream pm.fit / approx.sample draw from: neither is
\* given a random_seed, so the stream is not decided by fit's arguments.
Noise == {0, 1}

\* Exceptions a strategy may raise (all are subclasses of Exception).
Exceptions == {"KeyError", "FloatingPointError"}

alpha_true == 1
beta_infra_true == 2

VARIABLES
    pc,         \* position of each analysis
    args,       \* the arguments each analysis passes: seed, n_neigh, n_samples
    np_random,  \* numpy's process-wide RandomState
    df,         \* the DataFrame object of each analysis
    df0,        \* the DataFrame as generate_synthetic_data returned it
    pm_model,   \* the pm.Model built by fit
    attempted,  \* methods passed to pm.fit in this fit call, in order
    iters,      \* optimisation iterations run by the current pm.fit call
    caught,     \* the exception the except clause caught
    approx,     \* the approximation pm.fit returned
    samples,    \* number of approx.sample calls
    trace,      \* the posterior draws
    fit_ret,    \* what fit_hierarchical_model returned
    raised,     \* the exception that left fit / calculate_residuals
    stdout,     \* what was printed
    calc_arg,   \* whose trace calculate_residuals was given
    calc_ret    \* what calculate_residuals returned: a reference to a DataFrame

vars == <<pc, args, np_random, df, df0, pm_model, attempted, iters, caught,
          approx, samples, trace, fit_ret, raised, stdout, calc_arg, calc_ret>>

----------------------------------------------------------------------------
\* Numeric helpers

RECURSIVE Sum(_)
Sum(s) == IF s = <<>> THEN 0 ELSE Head(s) + Sum(Tail(s))

\* xarray .mean(): the sum over the number of values
Mean(s) == Sum(s) \div Len(s)

Max(a, b) == IF a >= b THEN a ELSE b

\* np.exp / pt.exp, in hundredths
Exp100(x) ==
    CASE x <= -3 -> 5
      [] x = -2 -> 14
      [] x = -1 -> 37
      [] x = 0 -> 100
      [] x = 1 -> 272
      [] x = 2 -> 739
      [] x = 3 -> 2009
      [] x = 4 -> 5460
      [] x = 5 -> 14841
      [] OTHER -> 40343

\* The k-th value of the stream a RandomState seeded with s produces.
RandomStream(s, k) == ((s % 5) * 7 + k * 11 + (s % 3) * k) % 12

\* np.random.poisson(rate) from one stream value u: a count around the rate
PoissonDraw(rate100, u) == Max(0, (rate100 \div 100) + (u % 3) - 1)

----------------------------------------------------------------------------
\* generate_synthetic_data

NoFrame == [index |-> <<>>, cols |-> <<>>]

\* Lines 35-63 run on a RandomState st = [seed, pos]: the frame they build.
\* Draws are taken in source order: coords (2n), infra_score (n),
\* true_neigh_effect (n), poisson (n).
DrawFrame(st, n) ==
    LET u(k) == RandomStream(st.seed, st.pos + k)
        x == [i \in 1..n |-> u(2 * (i - 1)) % 4]
        y == [i \in 1..n |-> u(2 * (i - 1) + 1) % 4]
        infra_score == [i \in 1..n |-> u(2 * n + (i - 1)) % 2]
        true_neigh_effect == [i \in 1..n |-> (u(3 * n + (i - 1)) % 3) - 1]
        log_demand == [i \in 1..n |->
            alpha_true + beta_infra_true * infra_score[i] + true_neigh_effect[i]]
        expected_demand == [i \in 1..n |-> Exp100(log_demand[i])]
        observed_demand == [i \in 1..n |->
            PoissonDraw(expected_demand[i], u(4 * n + (i - 1)))]
    IN  [index |-> [i \in 1..n |-> i - 1],
         cols |-> [neighborhood |-> [i \in 1..n |-> i - 1],
                   x |-> x,
                   y |-> y,
                   infrastructure |-> infra_score,
                   observed_demand |-> observed_demand]]

\* What generate_synthetic_data(n, seed) returns when nothing else touches
\* the RandomState between its seeding and its draws.
GenerateAlone(n, seed) == DrawFrame([seed |-> seed, pos |-> 0], n)

\* line 32: np.random.seed(seed) reseeds the process-wide RandomState
GenSeed(p) ==
    /\ pc[p] = "start"
    /\ np_random' = [seed |-> args[p].seed, pos |-> 0]
    /\ pc' = [pc EXCEPT ![p] = "gen_seeded"]
    /\ UNCHANGED <<args, df, df0, pm_model, attempted, iters, caught, approx,
                   samples, trace, fit_ret, raised, stdout, calc_arg, calc_ret>>

\* lines 35-65: the draws, from whatever state the process-wide RandomState
\* is in, and the DataFrame. The draws are taken as one step: another thread
\* gets in between the seeding and the draws, not between two draws.
GenDraw(p) ==
    /\ pc[p] = "gen_seeded"
    /\ LET frame == DrawFrame(np_random, args[p].n_neigh)
       IN  /\ df' = [df EXCEPT ![p] = frame]
           /\ df0' = [df0 EXCEPT ![p] = frame]
    /\ np_random' = [np_random EXCEPT !.pos = @ + 5 * args[p].n_neigh]
    /\ pc' = [pc EXCEPT ![p] = "generated"]
    /\ UNCHANGED <<args, pm_model, attempted, iters, caught, approx,
                   samples, trace, fit_ret, raised, stdout, calc_arg, calc_ret>>

----------------------------------------------------------------------------
\* fit_hierarchical_model

NoModel == [n_neigh |-> 0, infrastructure |-> <<>>, observed |-> <<>>]
NoApprox == [method |-> "none", n_neigh |-> 0, infrastructure |-> <<>>,
             observed |-> <<>>, n |-> 0, z |-> 0]
NoTrace == [method |-> "none", alpha |-> <<>>, beta_infra |-> <<>>,
            sigma_neigh |-> <<>>, neigh_eff |-> <<>>]
NoException == [type |-> "none", context |-> "none"]

\* Slips in the two method names: the order swapped, the mean-field method
\* named in the except clause, the first method named again
FirstMethodSwapped == "fullrank_advi"
FallbackMeanField == "advi"
FallbackRetry == "laplace"

\* line 100: the method tried first; line 103: the method of the except clause
FirstMethod == "laplace"
FallbackMethod == "fullrank_advi"

\* n=n_samples (lines 100, 103): the iterations one pm.fit call may run
IterationBudget(p) == args[p].n_samples

\* lines 79-95: the model holds n_neigh = len(df) and the two columns' .values
BuildModel(frame) ==
    [n_neigh |-> Len(frame.index),
     infrastructure |-> frame.cols["infrastructure"],
     observed |-> frame.cols["observed_demand"]]

\* What pm.fit(method, n) returns for model m on random stream z: decided by
\* the method, the model's data, n and the stream, by nothing else.
FitResult(method, m, n, z) ==
    [method |-> method, n_neigh |-> m.n_neigh, infrastructure |-> m.infrastructure,
     observed |-> m.observed, n |-> n, z |-> z]

\* line 105: approx.sample(draws). One value per draw for the scalars,
\* one per draw and neighbourhood for neigh_eff (shape = n_neigh, line 88).
\* The values stand in for the library's numbers: what matters is that they
\* are decided by the approximation, its data and its random stream.
SampleTrace(a, draws) ==
    LET k == a.z + Sum(a.observed) + a.n + (IF a.method = "laplace" THEN 0 ELSE 1)
    IN  [method |-> a.method,
         alpha |-> [d \in 1..draws |-> (k % 2) + (d % 2)],
         beta_infra |-> [d \in 1..draws |-> 1 + ((k + 2 * d) % 2)],
         sigma_neigh |-> [d \in 1..draws |-> 1],
         neigh_eff |-> [d \in 1..draws |->
             [i \in 1..a.n_neigh |-> ((k + d + i + a.observed[i]) % 3) - 1]]]

\* line 107: return model, trace
FitReturn(m, t) == [model |-> m, trace |-> t]

\* lines 79-100: build the model, announce and start the first method
FitBegin(p) ==
    /\ pc[p] = "generated"
    /\ pm_model' = [pm_model EXCEPT ![p] = BuildModel(df[p])]
    /\ stdout' = [stdout EXCEPT ![p] =
           Append(@, [text |-> "Attempting Laplace approximation...", e |-> "none"])]
    /\ attempted' = [attempted EXCEPT ![p] = Append(@, FirstMethod)]
    /\ iters' = [iters EXCEPT ![p] = 0]
    /\ pc' = [pc EXCEPT ![p] = "try"]
    /\ UNCHANGED <<args, np_random, df, df0, caught, approx, samples, trace,
                   fit_ret, raised, calc_arg, calc_ret>>

\* one optimisation iteration inside pm.fit (either call)
FitIterate(p) ==
    /\ pc[p] \in {"try", "except"}
    /\ iters[p] < IterationBudget(p)
    /\ iters' = [iters EXCEPT ![p] = @ + 1]
    /\ UNCHANGED <<pc, args, np_random, df, df0, pm_model, attempted, caught,
                   approx, samples, trace, fit_ret, raised, stdout, calc_arg,
                   calc_ret>>

\* line 100 returns: the first method produced an approximation
TryReturns(p) ==
    /\ pc[p] = "try"
    /\ iters[p] = IterationBudget(p)
    /\ \E z \in Noise :
          approx' = [approx EXCEPT ![p] =
              FitResult(attempted[p][Len(attempted[p])], pm_model[p],
                        args[p].n_samples, z)]
    /\ pc' = [pc EXCEPT ![p] = "sample"]
    /\ UNCHANGED <<args, np_random, df, df0, pm_model, attempted, iters, caught,
                   samples, trace, fit_ret, raised, stdout, calc_arg, calc_ret>>

\* lines 101-103: line 100 raised an Exception; it is caught, reported on
\* stdout, and the fallback method is started
TryRaises(p) ==
    /\ pc[p] = "try"
    /\ \E e \in Exceptions :
          /\ caught' = [caught EXCEPT ![p] = e]
          /\ stdout' = [stdout EXCEPT ![p] =
                 Append(@, [text |-> "Laplace method not available, falling back to fullrank_advi",
                            e |-> e])]
    /\ attempted' = [attempted EXCEPT ![p] = Append(@, FallbackMethod)]
    /\ iters' = [iters EXCEPT ![p] = 0]
    /\ pc' = [pc EXCEPT ![p] = "except"]
    /\ UNCHANGED <<args, np_random, df, df0, pm_model, approx, samples, trace,
                   fit_ret, raised, calc_arg, calc_ret>>

\* line 103 returns: the fallback method produced an approximation
ExceptReturns(p) ==
    /\ pc[p] = "except"
    /\ iters[p] = IterationBudget(p)
    /\ \E z \in Noise :
          approx' = [approx EXCEPT ![p] =
              FitResult(attempted[p][Len(attempted[p])], pm_model[p],
                        args[p].n_samples, z)]
    /\ pc' = [pc EXCEPT ![p] = "sample"]
    /\ UNCHANGED <<args, np_random, df, df0, pm_model, attempted, iters, caught,
                   samples, trace, fit_ret, raised, stdout, calc_arg, calc_ret>>

\* line 103 raises: nothing catches it, the exception leaves fit as it is
\* (its __context__ is the exception caught at line 101)
ExceptRaises(p) ==
    /\ pc[p] = "except"
    /\ \E e \in Exceptions :
          raised' = [raised EXCEPT ![p] = [type |-> e, context |-> caught[p]]]
    /\ pc' = [pc EXCEPT ![p] = "fit_raised"]
    /\ UNCHANGED <<args, np_random, df, df0, pm_model, attempted, iters, caught,
                   approx, samples, trace, fit_ret, stdout, calc_arg, calc_ret>>

\* lines 105-107: draw the posterior sample and return (model, trace)
SampleAndReturn(p) ==
    /\ pc[p] = "sample"
    /\ LET t == SampleTrace(approx[p], SampleDraws)
       IN  /\ trace' = [trace EXCEPT ![p] = t]
           /\ fit_ret' = [fit_ret EXCEPT ![p] = FitReturn(pm_model[p], t)]
    /\ samples' = [samples EXCEPT ![p] = @ + 1]
    /\ pc' = [pc EXCEPT ![p] = "fit_returned"]
    /\ UNCHANGED <<args, np_random, df, df0, pm_model, attempted, iters, caught,
                   approx, raised, stdout, calc_arg, calc_ret>>

----------------------------------------------------------------------------
\* calculate_residuals

\* Slip: the mean taken over the components, one value per draw
PosteriorNeighEffOverUnits(t) ==
    [d \in 1..Len(t.neigh_eff) |-> Mean(t.neigh_eff[d])]

\* line 122: trace.posterior["neigh_eff"].mean(dim=["chain", "draw"]).values:
\* one mean per component, over the draws
PosteriorNeighEff(t) ==
    LET draws == Len(t.neigh_eff)
        m == Len(t.neigh_eff[1])
    IN  [i \in 1..m |-> Mean([d \in 1..draws |-> t.neigh_eff[d][i]])]

\* numpy's rule for combining two 1-d arrays elementwise
Broadcastable(a, b) == Len(a) = Len(b) \/ Len(a) = 1 \/ Len(b) = 1

\* numpy's a + b for two 1-d arrays that broadcast: a length-1 array is
\* repeated along the other
BroadcastAdd(a, b) ==
    LET n == IF Len(a) = 1 THEN Len(b) ELSE Len(a)
    IN  [i \in 1..n |-> a[IF Len(a) = 1 THEN 1 ELSE i] + b[IF Len(b) = 1 THEN 1 ELSE i]]

\* lines 125-128: posterior_alpha + posterior_beta_infra * df['infrastructure'].values
FixedPart(frame, t) ==
    LET posterior_alpha == Mean(t.alpha)
        posterior_beta_infra == Mean(t.beta_infra)
        infra == frame.cols["infrastructure"]
    IN  [i \in 1..Len(infra) |-> posterior_alpha + posterior_beta_infra * infra[i]]

\* line 130: posterior_lambda = np.exp(posterior_log_lambda)
PosteriorLambda(frame, t) ==
    LET log_lambda == BroadcastAdd(FixedPart(frame, t), PosteriorNeighEff(t))
    IN  [i \in 1..Len(log_lambda) |-> Exp100(log_lambda[i])]

\* Slip: predicted minus observed
ResidualsReversed(frame, lam) ==
    [index |-> frame.index,
     values |-> [i \in 1..Len(lam) |-> lam[i] - 100 * frame.cols["observed_demand"][i]]]

\* line 133: df['observed_demand'] - posterior_lambda, a Series on df's index
\* (counts are put in hundredths, like lambda)
Residuals(frame, lam) ==
    [index |-> frame.index,
     values |-> [i \in 1..Len(lam) |-> 100 * frame.cols["observed_demand"][i] - lam[i]]]

\* pandas' alignment of a Series assigned as a column: by position when the
\* Series carries the frame's index, else by index label (no label: NaN)
AlignToIndex(series, index) ==
    IF series.index = index THEN series.values
    ELSE [r \in 1..Len(index) |->
            IF \E k \in 1..Len(series.index) : series.index[k] = index[r]
            THEN series.values[CHOOSE k \in 1..Len(series.index) :
                                   series.index[k] = index[r]]
            ELSE "NaN"]

\* df[name] = values: the frame with that column set, the others kept
SetColumn(frame, name, values) ==
    [frame EXCEPT !.cols =
        [c \in DOMAIN frame.cols \cup {name} |->
            IF c = name THEN values ELSE frame.cols[c]]]

\* Slip: the residuals written over the observed counts
WithResidualsOverwriting(frame, lam) ==
    SetColumn(SetColumn(frame, "observed_demand",
                        AlignToIndex(Residuals(frame, lam), frame.index)),
              "predicted_demand", lam)

\* lines 136-137: the two columns added to df
WithResiduals(frame, lam) ==
    SetColumn(SetColumn(frame, "residuals",
                        AlignToIndex(Residuals(frame, lam), frame.index)),
              "predicted_demand", lam)

\* Whether lines 127-133 raise: the arrays do not broadcast (line 129), or
\* the array subtracted from the Series has another length (line 133)
CalcRaises(frame, t) ==
    \/ ~Broadcastable(FixedPart(frame, t), PosteriorNeighEff(t))
    \/ Len(BroadcastAdd(FixedPart(frame, t), PosteriorNeighEff(t))) # Len(frame.index)

\* calculate_residuals(df of p, trace of q)
Calc(p, q) ==
    /\ pc[p] = "fit_returned"
    /\ pc[q] \in {"fit_returned", "calc_returned", "calc_raised"}
    /\ calc_arg' = [calc_arg EXCEPT ![p] = q]
    /\ IF CalcRaises(df[p], trace[q])
       THEN /\ raised' = [raised EXCEPT ![p] = [type |-> "ValueError", context |-> "none"]]
            /\ pc' = [pc EXCEPT ![p] = "calc_raised"]
            /\ UNCHANGED <<df, calc_ret>>
       ELSE /\ df' = [df EXCEPT ![p] = WithResiduals(@, PosteriorLambda(@, trace[q]))]
            /\ calc_ret' = [calc_ret EXCEPT ![p] = p]
            /\ pc' = [pc EXCEPT ![p] = "calc_returned"]
            /\ UNCHANGED raised
    /\ UNCHANGED <<args, np_random, df0, pm_model, attempted, iters, caught,
                   approx, samples, trace, fit_ret, stdout>>

----------------------------------------------------------------------------
\* The program

Arguments == [seed : Seeds, n_neigh : 1..MaxNeigh, n_samples : 1..MaxIter]

Init ==
    /\ pc = [p \in Pipes |-> "start"]
    /\ args \in [Pipes -> Arguments]
    /\ np_random = [seed |-> 0, pos |-> 0]  \* as numpy seeded it at import
    /\ df = [p \in Pipes |-> NoFrame]
    /\ df0 = [p \in Pipes |-> NoFrame]
    /\ pm_model = [p \in Pipes |-> NoModel]
    /\ attempted = [p \in Pipes |-> <<>>]
    /\ iters = [p \in Pipes |-> 0]
    /\ caught = [p \in Pipes |-> "none"]
    /\ approx = [p \in Pipes |-> NoApprox]
    /\ samples = [p \in Pipes |-> 0]
    /\ trace = [p \in Pipes |-> NoTrace]
    /\ fit_ret = [p \in Pipes |-> <<>>]
    /\ raised = [p \in Pipes |-> NoException]
    /\ stdout = [p \in Pipes |-> <<>>]
    /\ calc_arg = [p \in Pipes |-> 0]
    /\ calc_ret = [p \in Pipes |-> 0]

Finished(p) == pc[p] \in {"fit_raised", "calc_returned", "calc_raised"}

\* example_usage.py runs its analyses one after the other: analysis p takes
\* its steps once the analyses before it have finished
Turn(p) == \A q \in Pipes : q < p => Finished(q)

Next ==
    \E p \in Pipes :
        \/ Turn(p) /\ GenSeed(p)
        \/ Turn(p) /\ GenDraw(p)
        \/ Turn(p) /\ FitBegin(p)
        \/ Turn(p) /\ FitIterate(p)
        \/ Turn(p) /\ TryReturns(p)
        \/ Turn(p) /\ TryRaises(p)
        \/ Turn(p) /\ ExceptReturns(p)
        \/ Turn(p) /\ ExceptRaises(p)
        \/ Turn(p) /\ SampleAndReturn(p)
        \/ Turn(p) /\ \E q \in Pipes : Calc(p, q)

Spec == Init /\ [][Next]_vars

\* The runs on which termination is checked: every iteration budget, on the
\* data of generate_synthetic_data(n_neigh=1, seed=42). The data are read by
\* BuildModel alone and decide no branch of fit.
LiveInit == Init /\ \A p \in Pipes : args[p].seed = 42 /\ args[p].n_neigh = 1

\* A call that can take a step takes it: the interpreter keeps running
LiveSpec == LiveInit /\ [][Next]_vars /\ WF_vars(Next)

\* Batch analysis on worker threads: the analyses' steps interleave
ThreadNext ==
    \E p \in Pipes :
        \/ GenSeed(p)
        \/ GenDraw(p)
        \/ FitBegin(p)
        \/ FitIterate(p)
        \/ TryReturns(p)
        \/ TryRaises(p)
        \/ ExceptReturns(p)
        \/ ExceptRaises(p)
        \/ SampleAndReturn(p)
        \/ \E q \in Pipes : Calc(p, q)

ThreadSpec == Init /\ [][ThreadNext]_vars

----------------------------------------------------------------------------
\* Properties

FitReturned(p) == pc[p] \in {"fit_returned", "calc_returned", "calc_raised"}
Generated(p) == pc[p] \notin {"start", "gen_seeded"}

\* The arrays a residual call worked on: the caller's frame as generated,
\* and the trace it was given
CalcTrace(p) == trace[calc_arg[p]]
Units(p) == Len(df0[p].index)
Components(p) == Len(CalcTrace(p).neigh_eff[1])

\* The mean over the draws of component i of the trace given to p's call
ComponentMean(p, i) ==
    Mean([d \in 1..Len(CalcTrace(p).neigh_eff) |-> CalcTrace(p).neigh_eff[d][i]])

\* The demand the posterior means give for unit i of p's frame
MeanDemand(p, i) ==
    Exp100(Mean(CalcTrace(p).alpha)
           + Mean(CalcTrace(p).beta_infra) * df0[p].cols["infrastructure"][i]
           + ComponentMean(p, i))

\* C1: in every fit call the methods are attempted in preference order,
\* laplace before fullrank_advi, each at most once; fullrank_advi is attempted
\* only after the laplace attempt raised; and when laplace succeeds its
\* approximation is the one sampled and returned, fullrank_advi never attempted.
C1_PreferenceOrder ==
    \A p \in Pipes :
        /\ attempted[p] \in {<<>>, <<"laplace">>, <<"laplace", "fullrank_advi">>}
        /\ Len(attempted[p]) = 2 => caught[p] # "none"
        /\ (FitReturned(p) /\ caught[p] = "none") =>
               /\ attempted[p] = <<"laplace">>
               /\ approx[p].method = "laplace"
               /\ fit_ret[p].trace = SampleTrace(approx[p], SampleDraws)

\* One fit returned laplace's result, another fell back and returned
C1_Witness ==
    /\ FitReturned(1) /\ caught[1] = "none"
    /\ FitReturned(2) /\ attempted[2] = <<"laplace", "fullrank_advi">>

C3_OnlyInferenceFailure ==
    \A p \in Pipes :
        pc[p] = "fit_raised" => raised[p].type = "InferenceFailureError"

\* C4: whenever the trace given to the residual call has a number of
\* random-effect components other than the number of units, the call fails,
\* produces no residual records and leaves the units unchanged; a mismatched
\* ensemble is never broadcast. (The class of the error is left open here.)
C4_MismatchFails ==
    \A p \in Pipes :
        (calc_arg[p] # 0 /\ Components(p) # Units(p)) =>
            /\ pc[p] = "calc_raised"
            /\ calc_ret[p] = 0
            /\ df[p] = df0[p]

\* C5: after the residual call returns, for every unit residual +
\* predicted_demand = observed count (all in hundredths), and, the trace
\* having one component per unit, predicted_demand is exp(mean alpha + mean
\* beta * covariate + mean random effect of that unit).
C5_ResidualConservation ==
    \A p \in Pipes :
        pc[p] = "calc_returned" =>
            \A i \in 1..Units(p) :
                /\ df[p].cols["residuals"][i] + df[p].cols["predicted_demand"][i]
                       = 100 * df0[p].cols["observed_demand"][i]
                /\ Components(p) = Units(p) =>
                       df[p].cols["predicted_demand"][i] = MeanDemand(p, i)

\* A residual call returned for two units, one of them with a residual that
\* is not zero
C5_Witness ==
    \E p \in Pipes :
        /\ pc[p] = "calc_returned"
        /\ Units(p) = 2 /\ Components(p) = 2
        /\ \E i \in 1..2 : df[p].cols["residuals"][i] # 0

C7_SameInputsSameResult ==
    (/\ FitReturned(1) /\ FitReturned(2)
     /\ args[1] = args[2]
     /\ df0[1] = df0[2]
     /\ pm_model[1] = pm_model[2]
     /\ attempted[1] = attempted[2])
    => (approx[1] = approx[2] /\ trace[1] = trace[2])

\* C8: whatever the interleaving of the analyses, each gets the data it gets
\* when run alone.
C8_AsWhenRunAlone ==
    \A p \in Pipes :
        Generated(p) => df0[p] = GenerateAlone(args[p].n_neigh, args[p].seed)

\* C9 as stated: the unit collection is never changed after its creation,
\* neither its values nor the set of fields it holds.
C9_NeverMutated ==
    \A p \in Pipes : Generated(p) => df[p] = df0[p]

\* C9 amended: fit leaves the caller's unit collection unchanged, and so does
\* a residual call that raises; a residual call that returns leaves the
\* index and every column the collection had unchanged, but adds the columns
\* residuals and predicted_demand to the caller's own collection and returns
\* that same collection.
C9_OnlyColumnsAdded ==
    \A p \in Pipes :
        Generated(p) =>
            /\ df[p].index = df0[p].index
            /\ \A c \in DOMAIN df0[p].cols : df[p].cols[c] = df0[p].cols[c]
            /\ pc[p] # "calc_returned" => (df[p] = df0[p] /\ calc_ret[p] = 0)
            /\ pc[p] = "calc_returned" =>
                   /\ DOMAIN df[p].cols =
                          DOMAIN df0[p].cols \cup {"residuals", "predicted_demand"}
                   /\ calc_ret[p] = p

C9_Witness ==
    \E p \in Pipes :
        /\ pc[p] = "calc_returned"
        /\ "residuals" \in DOMAIN df[p].cols
        /\ calc_ret[p] = p

\* C10: every fit call ends, by returning or by raising; each pm.fit call runs
\* at most n_samples iterations; each method is attempted at most once; the
\* posterior is sampled exactly once when fit returns and never when it raises.
C10_Bounded ==
    \A p \in Pipes :
        /\ iters[p] <= args[p].n_samples
        /\ Len(attempted[p]) <= 2
        /\ \A j, k \in 1..Len(attempted[p]) : attempted[p][j] = attempted[p][k] => j = k
        /\ samples[p] = (IF FitReturned(p) THEN 1 ELSE 0)
        /\ samples[p] = 1 => approx[p].method \in {"laplace", "fullrank_advi"}

\* C10: every fit call terminates: from its first pm.fit call it reaches its
\* return or its raise, within the bounds above.
C10_FitTerminates ==
    /\ []C10_Bounded
    /\ \A p \in Pipes : (pc[p] = "try") ~> (FitReturned(p) \/ pc[p] = "fit_raised")

\* A fit call used its whole budget twice over and returned after one sample
C10_Witness ==
    \E p \in Pipes :
        /\ pc[p] = "fit_returned"
        /\ Len(attempted[p]) = 2
        /\ iters[p] = MaxIter
        /\ samples[p] = 1

====
